---- MODULE Spec2Model ----
(***************************************************************************)
(* Model of 0x00-personal_data/filtered_logger.py.                         *)
(*                                                                         *)
(* A text is a sequence of pieces.  A piece is an atomic run of characters *)
(* ("name", "=", ";", "bob", a line break, the conversion "%s"): no piece  *)
(* is matched in part, so matching on pieces is matching on characters.    *)
(***************************************************************************)
EXTENDS Integers, Sequences, FiniteSets, TLC

\* ------------------------------------------------------------------ bounds
MaxLen == 6          \* longest message given to filter_datum
MaxMsgLen == 4       \* longest message template given to the logger
MaxCalls == 2        \* get_logger() calls in one run

\* --------------------------------------------------------------- constants
NL == "\n"
EQ == "="
PII_FIELDS == << <<"name">>, <<"email">>, <<"phone">>, <<"ssn">>, <<"password">> >>
REDACTION == <<"***">>
SEPARATOR == ";"
INFO == 20

\* ------------------------------------------------------------ text helpers
StrOver(A, n) == UNION { [1..k -> A] : k \in 0..n }

HasPrefixAt(m, p, i) ==
    /\ i + Len(p) - 1 <= Len(m)
    /\ \A k \in 1..Len(p) : m[i + k - 1] = p[k]

Contains(m, p) == \E i \in 1..(Len(m) - Len(p) + 1) : HasPrefixAt(m, p, i)

\* -------------------------------------------------------------- the regex
\* '.*?' followed by the separator, tried from piece j on: the lazy loop
\* tries the separator first and lets '.' take one more piece otherwise;
\* '.' takes no line break.  The index of the separator that ends the match,
\* 0 when there is no match.
RECURSIVE LazyEnd_greedy(_, _, _)
LazyEnd_greedy(m, separator, j) ==
    IF j > Len(m) \/ m[j] = NL THEN 0
    ELSE LET later == LazyEnd_greedy(m, separator, j + 1)
         IN  IF later # 0 THEN later
             ELSE IF m[j] = separator THEN j ELSE 0

RECURSIVE LazyEnd(_, _, _)
LazyEnd(m, separator, j) ==
    IF j > Len(m) THEN 0
    ELSE IF m[j] = separator THEN j
    ELSE IF m[j] = NL THEN 0
    ELSE LazyEnd(m, separator, j + 1)

\* f'{f}=.*?{separator}' matched at piece i: the index of its last piece, or 0.
MatchAt(m, f, separator, i) ==
    IF HasPrefixAt(m, f \o <<EQ>>, i)
    THEN LazyEnd(m, separator, i + Len(f) + 1)
    ELSE 0

\* f'{f}={redaction}{separator}'
Replacement_no_separator(f, redaction, separator) == f \o <<EQ>> \o redaction

Replacement(f, redaction, separator) == f \o <<EQ>> \o redaction \o <<separator>>

\* re.sub(pattern, repl, message) from piece pos on: the leftmost match is
\* replaced and the scan resumes after it; an unmatched piece is copied.
RECURSIVE SubFrom(_, _, _, _, _)
SubFrom(m, f, redaction, separator, pos) ==
    IF pos > Len(m) THEN <<>>
    ELSE LET e == MatchAt(m, f, separator, pos)
         IN  IF e # 0
             THEN Replacement(f, redaction, separator)
                      \o SubFrom(m, f, redaction, separator, e + 1)
             ELSE <<m[pos]>> \o SubFrom(m, f, redaction, separator, pos + 1)

\* re.sub with count=1: only the leftmost match is replaced.
RECURSIVE SubFirst(_, _, _, _, _)
SubFirst(m, f, redaction, separator, pos) ==
    IF pos > Len(m) THEN <<>>
    ELSE LET e == MatchAt(m, f, separator, pos)
         IN  IF e # 0
             THEN Replacement(f, redaction, separator) \o SubSeq(m, e + 1, Len(m))
             ELSE <<m[pos]>> \o SubFirst(m, f, redaction, separator, pos + 1)

re_sub_first_only(f, redaction, separator, message) ==
    SubFirst(message, f, redaction, separator, 1)

re_sub(f, redaction, separator, message) ==
    SubFrom(message, f, redaction, separator, 1)

\* The loop returning from inside its first iteration.
filter_datum_return_in_loop(fields, redaction, message, separator) ==
    IF fields = <<>> THEN message
    ELSE re_sub(Head(fields), redaction, separator, message)

RECURSIVE filter_datum(_, _, _, _)
filter_datum(fields, redaction, message, separator) ==
    IF fields = <<>> THEN message
    ELSE filter_datum(Tail(fields), redaction,
                      re_sub(Head(fields), redaction, separator, message),
                      separator)

\* ------------------------------------------------------------------- state
VARIABLES
    fields, redaction, message, separator,  \* the arguments of filter_datum
    result,                                 \* what filter_datum returned
    pc,                                     \* "call" before, "return" after
    level, propagate, handlers,             \* the logger named "user_data"
    rootHandler,                            \* the root logger has a handler
    calls,                                  \* get_logger() calls so far
    call,                                   \* <<>> or <<the last logging call>>
    emits,                                  \* what each handler did with it
    trace,                                  \* its redactions and writes, in order
    stderr,                                 \* what it put on sys.stderr
    rootOut                                 \* what the root handler wrote of it

filterVars == <<fields, redaction, message, separator, result, pc>>
loggerVars == <<level, propagate, handlers, rootHandler, calls>>
recordVars == <<call, emits, trace, stderr, rootOut>>
vars == <<filterVars, loggerVars, recordVars>>

\* ------------------------------------------------- LogRecord.getMessage()
\* msg % args, "%s" being the one conversion used: each "%s" takes the next
\* argument; too few or too many arguments raise TypeError (ok = FALSE).
RECURSIVE Interpolate(_, _)
Interpolate(msg, args) ==
    IF msg = <<>> THEN [ok |-> args = <<>>, text |-> <<>>]
    ELSE IF Head(msg) = "%s"
    THEN IF args = <<>> THEN [ok |-> FALSE, text |-> <<>>]
         ELSE LET r == Interpolate(Tail(msg), Tail(args))
              IN  [ok |-> r.ok, text |-> Head(args) \o r.text]
    ELSE LET r == Interpolate(Tail(msg), args)
         IN  [ok |-> r.ok, text |-> <<Head(msg)>> \o r.text]

\* msg = str(self.msg); if self.args: msg = msg % self.args
getMessage(rec) ==
    IF rec.args = <<>> THEN [ok |-> TRUE, text |-> rec.msg]
    ELSE Interpolate(rec.msg, rec.args)

NoLine == [name |-> "", levelno |-> 0, message |-> <<>>]

\* logging.Formatter.format(record): record.message = record.getMessage(),
\* then FORMAT % record.__dict__ (name, levelname and message; asctime is the
\* clock's and is left out).
BaseFormat(rec) ==
    LET r == getMessage(rec)
    IN  [raised |-> ~r.ok,
         line |-> IF r.ok
                  THEN [name |-> "user_data", levelno |-> rec.levelno,
                        message |-> r.text]
                  ELSE NoLine]

\* RedactingFormatter.format(record) of a formatter built with fs.
Format(fs, rec) ==
    LET r == getMessage(rec)
    IN  IF ~r.ok
        THEN [raised |-> TRUE, redacted |-> FALSE, rec |-> rec, line |-> NoLine]
        ELSE LET rec2 == [rec EXCEPT
                           !.msg = filter_datum(fs, REDACTION, r.text, SEPARATOR)]
                 b == BaseFormat(rec2)
             IN  [raised |-> b.raised, redacted |-> TRUE, rec |-> rec2,
                  line |-> b.line]

\* StreamHandler.emit(record) of a handler attached by get_logger: the line
\* goes to the handler's stream, sys.stderr; an exception of format is caught
\* and handleError prints the record's msg and args to sys.stderr
\* (logging.raiseExceptions is left at its default).
Emit(h, rec) ==
    LET f == Format(h.fields, rec)
    IN  [rec |-> f.rec,
         emit |-> [before |-> rec, raised |-> f.raised, redacted |-> f.redacted,
                   after |-> f.rec, line |-> f.line],
         trace |-> (IF f.redacted THEN <<"redact">> ELSE <<>>)
                       \o (IF f.raised THEN <<"error">> ELSE <<"write">>),
         out |-> IF f.raised
                 THEN <<[kind |-> "error", text |-> f.rec.msg, args |-> f.rec.args]>>
                 ELSE <<[kind |-> "line", text |-> f.line.message, args |-> <<>>]>>]

\* Logger.callHandlers(record) over the logger's own handlers, in order.
RECURSIVE CallHandlers(_, _)
CallHandlers(hs, rec) ==
    IF hs = <<>>
    THEN [rec |-> rec, emits |-> <<>>, trace |-> <<>>, out |-> <<>>]
    ELSE LET e == Emit(Head(hs), rec)
             r == CallHandlers(Tail(hs), e.rec)
         IN  [rec |-> r.rec, emits |-> <<e.emit>> \o r.emits,
              trace |-> e.trace \o r.trace, out |-> e.out \o r.out]

\* Logger.getEffectiveLevel(): the logger's level, the root's WARNING if unset.
EffectiveLevel == IF level = 0 THEN 30 ELSE level

\* ------------------------------------------------------------ get_logger()
\* logging.getLogger("user_data") is the one logger of that name; addHandler
\* appends the new StreamHandler, an object no earlier handler equals.
get_logger_keeps_propagate ==
    /\ calls < MaxCalls
    /\ level' = INFO
    /\ handlers' = Append(handlers, [fields |-> PII_FIELDS])
    /\ calls' = calls + 1
    /\ UNCHANGED <<propagate, rootHandler, filterVars, recordVars>>

get_logger ==
    /\ calls < MaxCalls
    /\ level' = INFO
    /\ propagate' = FALSE
    /\ handlers' = Append(handlers, [fields |-> PII_FIELDS])
    /\ calls' = calls + 1
    /\ UNCHANGED <<rootHandler, filterVars, recordVars>>

\* ------------------------------------- logger.info(msg, *args) and its kin
LogAlphabet == {"name", "bob", "%s", EQ, SEPARATOR}
LogArgs == { <<>>, << <<"bob">> >>, << <<"bob">>, <<"bob">> >> }
Levels == {10, 20, 30}

\* One logging call on the logger get_logger returned, start to end: a
\* record below the effective level is dropped; otherwise every handler of
\* the logger emits it and, if the logger propagates, so does the root's.
\* A logging call changes nothing of the logger, so a run follows one record,
\* logged after any number of get_logger() calls.
Log(levelno, msg, args) ==
    /\ call' = <<[levelno |-> levelno, msg |-> msg, args |-> args]>>
    /\ IF levelno < EffectiveLevel
       THEN /\ emits' = <<>>
            /\ trace' = <<>>
            /\ stderr' = <<>>
            /\ rootOut' = <<>>
       ELSE LET r == CallHandlers(handlers, call'[1])
                b == BaseFormat(r.rec)
                up == propagate /\ rootHandler
            IN  /\ emits' = r.emits
                /\ trace' = r.trace
                /\ stderr' = r.out \o
                       (IF up /\ b.raised
                        THEN <<[kind |-> "error", text |-> r.rec.msg,
                                args |-> r.rec.args]>>
                        ELSE <<>>)
                /\ rootOut' = IF up /\ ~b.raised THEN <<b.line>> ELSE <<>>
    /\ UNCHANGED <<loggerVars, filterVars>>

LogAny ==
    /\ calls >= 1
    /\ call = <<>>
    /\ \E levelno \in Levels, msg \in StrOver(LogAlphabet, MaxMsgLen), args \in LogArgs :
           Log(levelno, msg, args)

InitLogger ==
    /\ level = 0
    /\ propagate = TRUE
    /\ handlers = <<>>
    /\ rootHandler \in BOOLEAN
    /\ calls = 0
    /\ call = <<>>
    /\ emits = <<>>
    /\ trace = <<>>
    /\ stderr = <<>>
    /\ rootOut = <<>>
    /\ fields = <<>>
    /\ redaction = REDACTION
    /\ separator = SEPARATOR
    /\ message = <<>>
    /\ result = <<>>
    /\ pc = "idle"

NextLogger == get_logger \/ LogAny

SpecLogger == InitLogger /\ [][NextLogger]_vars

\* --------------------------------------------------- filter_datum as a run
FilterAlphabet == {"name", "email", "bob", EQ, SEPARATOR, NL}
FieldLists == { <<>>, << <<"name">> >>, << <<"name">>, <<"email">> >> }

InitFilter ==
    /\ fields \in FieldLists
    /\ redaction = REDACTION
    /\ separator = SEPARATOR
    /\ message \in StrOver(FilterAlphabet, MaxLen)
    /\ result = <<>>
    /\ pc = "call"
    /\ level = 0
    /\ propagate = TRUE
    /\ handlers = <<>>
    /\ rootHandler = FALSE
    /\ calls = 0
    /\ call = <<>>
    /\ emits = <<>>
    /\ trace = <<>>
    /\ stderr = <<>>
    /\ rootOut = <<>>

CallFilterDatum ==
    /\ pc = "call"
    /\ result' = filter_datum(fields, redaction, message, separator)
    /\ pc' = "return"
    /\ UNCHANGED <<fields, redaction, message, separator, loggerVars, recordVars>>

NextFilter == CallFilterDatum

SpecFilter == InitFilter /\ [][NextFilter]_vars

\* The same call on field lists of two names in either order, over messages
\* made of the names, '=', the separator and the line break.
OrderAlphabet == {"name", "email", EQ, SEPARATOR, NL}
OrderFieldLists == { << <<"name">>, <<"email">> >>, << <<"email">>, <<"name">> >> }

InitOrder ==
    /\ fields \in OrderFieldLists
    /\ redaction = REDACTION
    /\ separator = SEPARATOR
    /\ message \in StrOver(OrderAlphabet, MaxLen)
    /\ result = <<>>
    /\ pc = "call"
    /\ level = 0
    /\ propagate = TRUE
    /\ handlers = <<>>
    /\ rootHandler = FALSE
    /\ calls = 0
    /\ call = <<>>
    /\ emits = <<>>
    /\ trace = <<>>
    /\ stderr = <<>>
    /\ rootOut = <<>>

SpecOrder == InitOrder /\ [][NextFilter]_vars

\* ------------------------------------------- vocabulary of the claims
Range(s) == { s[i] : i \in 1..Len(s) }

Min(S) == CHOOSE x \in S : \A y \in S : x <= y

\* Index of the first separator at or after piece from, 0 when none follows.
FirstSeparator(m, sep, from) ==
    LET S == { j \in from..Len(m) : m[j] = sep }
    IN  IF S = {} THEN 0 ELSE Min(S)

\* 'f=<value><separator>' starts at piece i, <value> being the text up to
\* the first following separator; oneLine asks <value> to hold no line break.
Occurrence(m, f, sep, i, oneLine) ==
    /\ HasPrefixAt(m, f \o <<EQ>>, i)
    /\ LET j == FirstSeparator(m, sep, i + Len(f) + 1)
       IN  /\ j # 0
           /\ oneLine => \A k \in (i + Len(f) + 1)..(j - 1) : m[k] # NL

OccEnd(m, f, sep, i) == FirstSeparator(m, sep, i + Len(f) + 1)

\* The starts, among pieces 1..i, of the occurrences taken left to right
\* without overlap.
RECURSIVE Taken(_, _, _, _, _)
Taken(m, f, sep, oneLine, i) ==
    IF i = 0 THEN {}
    ELSE LET S == Taken(m, f, sep, oneLine, i - 1)
         IN  IF /\ Occurrence(m, f, sep, i, oneLine)
                /\ \A s \in S : OccEnd(m, f, sep, s) < i
             THEN S \cup {i} ELSE S

\* m with every taken occurrence replaced by 'f=<mask><separator>' and every
\* other piece kept.
RECURSIVE Rewritten(_, _, _, _, _, _)
Rewritten(m, f, mask, sep, S, k) ==
    IF k > Len(m) THEN <<>>
    ELSE (IF k \in S THEN f \o <<EQ>> \o mask \o <<sep>>
          ELSE IF \E s \in S : s < k /\ k <= OccEnd(m, f, sep, s) THEN <<>>
          ELSE <<m[k]>>)
         \o Rewritten(m, f, mask, sep, S, k + 1)

Described(m, f, mask, sep, oneLine) ==
    Rewritten(m, f, mask, sep, Taken(m, f, sep, oneLine, Len(m)), 1)

RECURSIVE DescribedAll(_, _, _, _, _)
DescribedAll(fs, mask, m, sep, oneLine) ==
    IF fs = <<>> THEN m
    ELSE DescribedAll(Tail(fs), mask, Described(m, Head(fs), mask, sep, oneLine),
                      sep, oneLine)

\* The match spans re.sub finds for field f in m, from piece pos on.
RECURSIVE Spans(_, _, _, _)
Spans(m, f, sep, pos) ==
    IF pos > Len(m) THEN {}
    ELSE LET e == MatchAt(m, f, sep, pos)
         IN  IF e # 0 THEN {<<pos, e>>} \cup Spans(m, f, sep, e + 1)
             ELSE Spans(m, f, sep, pos + 1)

DisjointOccurrences(fs, m, sep) ==
    \A f \in Range(fs), g \in Range(fs) :
        f # g => \A a \in Spans(m, f, sep, 1), b \in Spans(m, g, sep, 1) :
                     a[2] < b[1] \/ b[2] < a[1]

PermutationsOf(fs) ==
    { [i \in 1..Len(fs) |-> fs[p[i]]] : p \in Permutations(1..Len(fs)) }

\* The value of the key 'f=' at piece i: the text after '=' up to the next
\* separator, or up to the end of the message when no separator follows.
ValueAt(m, f, sep, i) ==
    LET j == FirstSeparator(m, sep, i + Len(f) + 1)
    IN  SubSeq(m, i + Len(f) + 1, IF j = 0 THEN Len(m) ELSE j - 1)

\* The keys of the key=value pairs of m: a pair runs from the piece after a
\* separator (or the start) and its key is the text before its first '='.
Keys(m, sep) ==
    { SubSeq(m, s, e - 1) :
        <<s, e>> \in { <<s, e>> \in (1..Len(m)) \X (1..Len(m)) :
            /\ s <= e
            /\ m[e] = EQ
            /\ s = 1 \/ m[s - 1] = sep
            /\ \A k \in s..(e - 1) : m[k] # EQ /\ m[k] # sep } }

\* ---------------------------------------------------------------- claims
\* C7: filter_datum is idempotent for the mask "***": filtering its own
\* result with the same fields and separator returns that result.
C7_Idempotent ==
    (pc = "return" /\ redaction = <<"***">>)
        => filter_datum(fields, redaction, result, separator) = result

C7_Witness ==
    /\ pc = "return"
    /\ Len(fields) = 2
    /\ result # message
    /\ Contains(result, <<"name", EQ, "***", SEPARATOR>>)

\* C9: when the occurrences of the listed fields are disjoint, every
\* permutation of the field sequence gives the same result.
C9_OrderIndependent ==
    (pc = "return" /\ DisjointOccurrences(fields, message, separator))
        => \A p \in PermutationsOf(fields) :
               filter_datum(p, redaction, message, separator) = result

C9_Witness ==
    /\ pc = "return"
    /\ fields = << <<"email">>, <<"name">> >>
    /\ DisjointOccurrences(fields, message, separator)
    /\ Spans(message, <<"name">>, separator, 1) # {}
    /\ Spans(message, <<"email">>, separator, 1) # {}

WellFormed(m, sep) ==
    /\ m = <<>> \/ m[Len(m)] = sep
    /\ \A s \in 1..Len(m) : \A e \in (s - 1)..(Len(m) - 1) :
           (/\ s = 1 \/ m[s - 1] = sep
            /\ m[e + 1] = sep
            /\ \A k \in s..e : m[k] # sep)
               => /\ e >= s
                  /\ m[s] # EQ
                  /\ Cardinality({ k \in s..e : m[k] = EQ }) = 1

\* C8: a message of well-formed key=value pairs whose keys are all outside
\* the listed fields is returned unchanged, also when a key contains a listed
\* field without being one.
C8_Passthrough ==
    (/\ pc = "return"
     /\ WellFormed(message, separator)
     /\ Keys(message, separator) \cap Range(fields) = {})
        => result = message

\* ------------------------------------------------- the record of the call
Logged == call # <<>> /\ call[1].levelno >= INFO

Count(s, x) == Cardinality({ i \in 1..Len(s) : s[i] = x })

Lines == { i \in 1..Len(stderr) : stderr[i].kind = "line" }

\* C5: after get_logger() the logger does not propagate, so no handler of the
\* root logger receives the record, and a record below INFO reaches no sink.
C5_NoPropagation ==
    calls >= 1
        => /\ propagate = FALSE
           /\ rootOut = <<>>
           /\ (call # <<>> /\ call[1].levelno < INFO)
                  => (emits = <<>> /\ stderr = <<>>)

C5_Witness ==
    /\ rootHandler
    /\ Logged
    /\ Lines # {}
    /\ rootOut = <<>>

\* C4: after any number n >= 1 of get_logger() calls the logger has exactly
\* one handler, its formatter holds the full PII field list, and a logged
\* record that renders gives exactly one line.
C4_OneSink ==
    calls >= 1
        => /\ Len(handlers) = 1
           /\ handlers[1].fields = PII_FIELDS
           /\ (Logged /\ call[1].args = <<>>) => Cardinality(Lines) = 1

\* C1: a record that is written was redacted exactly once, and no write of it
\* comes before its redaction.
C1_RedactedOnce ==
    (Logged /\ Count(trace, "write") >= 1)
        => /\ Count(trace, "redact") = 1
           /\ \A i \in 1..Len(trace) :
                  trace[i] = "write" => \E j \in 1..(i - 1) : trace[j] = "redact"

\* C3: for a record whose message renders, with or without arguments, format
\* leaves filter_datum(fields, "***", rendered, ";") as the record's msg and
\* returns a line whose message is that same text.
C3_MessageIsRedacted ==
    \A k \in 1..Len(emits) :
        LET r == getMessage(emits[k].before)
            redacted == filter_datum(handlers[k].fields, <<"***">>, r.text, ";")
        IN  r.ok => /\ ~emits[k].raised
                    /\ emits[k].after.msg = redacted
                    /\ emits[k].line.message = redacted

\* C6, for a record whose message holds a listed field: when the message
\* does not render, format raises, no line is written for the record and
\* nothing carrying the unredacted message is written in its place.
C6_FailClosed ==
    (/\ Logged
     /\ Contains(call[1].msg, <<"name", EQ, "bob", SEPARATOR>>)
     /\ ~getMessage(call[1]).ok)
        => /\ \A k \in 1..Len(emits) : emits[k].raised /\ ~emits[k].redacted
           /\ Lines = {}
           /\ \A i \in 1..Len(stderr) : stderr[i].text # call[1].msg

====
